---- MODULE Spec2Model ----
(***************************************************************************)
(* Model of openhtf/bin/units_from_xls.py: the generator that turns the    *)
(* UNECE unit-code spreadsheet into the openhtf units module.              *)
(*                                                                         *)
(* Text is modelled as sequences of Unicode code points (Python 2 unicode  *)
(* objects) and, once encoded, as sequences of bytes.  A file's content is *)
(* the sequence of chunks written to it.                                   *)
(***************************************************************************)
EXTENDS Integers, Sequences, FiniteSets, TLC

VARIABLES
  pc,          \* position of main()
  order,       \* iteration order of the dict UNIT_KEY_REPLACEMENTS in this build
  dest,        \* the file at args.outfile
  dest0,       \* history: the file at args.outfile when main() started
  tmp,         \* the file at tmp_path
  sheet,       \* rows of the worksheet handed to unit_defs_from_sheet
  col_indices, \* unit_defs_from_sheet: label -> column index
  ri,          \* unit_defs_from_sheet: number of data rows fetched so far
  seen,        \* unit_defs_from_sheet: keys already emitted
  lines,       \* lines yielded by unit_defs_from_sheet so far
  stdout,      \* console messages
  unhandled,   \* the exception that left main(), "none" when there is none
  exit_code,   \* process exit status, -1 while running
  kname,       \* argument of a direct call of unit_key_from_name
  kresult,     \* its result
  kpc          \* "call" before the call, "return" after it

vars == <<pc, order, dest, dest0, tmp, sheet, col_indices, ri, seen, lines,
          stdout, unhandled, exit_code, kname, kresult, kpc>>

mainvars == <<pc, dest, dest0, tmp, sheet, col_indices, ri, seen, lines,
              stdout, unhandled, exit_code>>

keyvars == <<kname, kresult, kpc>>

----------------------------------------------------------------------------
(* Bounds of the model.                                                    *)

\* longest name handed to a direct call of unit_key_from_name
MaxNameLen == 3

\* most data rows below the header row of a worksheet
MaxRows == 2

----------------------------------------------------------------------------
(* Characters (code points).                                               *)

\* "'"
APOSTROPHE == 39

\* "\"
BACKSLASH == 92

\* "_"
UNDERSCORE == 95

----------------------------------------------------------------------------
(* Python string operations.                                               *)

RECURSIVE Concat(_)
\* ''.join(seqs)
Concat(seqs) ==
  IF seqs = <<>> THEN <<>> ELSE Head(seqs) \o Concat(Tail(seqs))

\* s.startswith(p)
StartsWith(s, p) ==
  /\ Len(p) <= Len(s)
  /\ SubSeq(s, 1, Len(p)) = p

\* pat occurs in line at position p
OccursAt(line, p, pat) ==
  /\ p >= 1
  /\ p + Len(pat) - 1 <= Len(line)
  /\ SubSeq(line, p, p + Len(pat) - 1) = pat

\* s[n:]
Drop(s, n) == SubSeq(s, n + 1, Len(s))

RECURSIVE Replace(_, _, _)
\* s.replace(old, new) for a non-empty old: the non-overlapping occurrences
\* of old, found scanning from the left, are each replaced by new.
Replace(s, old, new) ==
  IF Len(s) < Len(old) THEN s
  ELSE IF StartsWith(s, old)
       THEN new \o Replace(Drop(s, Len(old)), old, new)
       ELSE <<Head(s)>> \o Replace(Tail(s), old, new)

\* unicode.upper() of one code point: ASCII and Latin-1 letters.
UpperChar(c) ==
  IF c >= 97 /\ c <= 122 THEN c - 32
  ELSE IF c >= 224 /\ c <= 254 /\ c # 247 THEN c - 32
  ELSE IF c = 181 THEN 924
  ELSE IF c = 255 THEN 376
  ELSE c

\* s.upper()
Upper(s) == [i \in 1..Len(s) |-> UpperChar(s[i])]

RECURSIVE CollapseUnderscores(_)
\* re.sub(r'_+', '_', s)
CollapseUnderscores(s) ==
  IF s = <<>> THEN <<>>
  ELSE IF Head(s) = UNDERSCORE /\ Len(s) >= 2 /\ s[2] = UNDERSCORE
       THEN CollapseUnderscores(Tail(s))
       ELSE <<Head(s)>> \o CollapseUnderscores(Tail(s))

\* One code point encoded as UTF-8.
EncodeChar(c) ==
  IF c < 128 THEN <<c>>
  ELSE IF c < 2048 THEN <<192 + (c \div 64), 128 + (c % 64)>>
  ELSE <<224 + (c \div 4096), 128 + ((c \div 64) % 64), 128 + (c % 64)>>

RECURSIVE EncodeUtf8(_)
\* line.encode('utf8', 'replace') for code points below 65536 that are not
\* surrogates (nothing is replaced for these).
EncodeUtf8(s) ==
  IF s = <<>> THEN <<>> ELSE EncodeChar(Head(s)) \o EncodeUtf8(Tail(s))

----------------------------------------------------------------------------
(* The replacement table and unit_key_from_name.                           *)

\* The entries of the dict literal, in the order in which they are written.
\* Each is <<old, new>>.
UNIT_KEY_REPLACEMENTS ==
  << << <<32>>,     <<95>> >>,                          \* ' '  : '_'
     << <<44>>,     <<95>> >>,                          \* ','  : '_'
     << <<46>>,     <<95>> >>,                          \* '.'  : '_'
     << <<45>>,     <<95>> >>,                          \* '-'  : '_'
     << <<47>>,     <<95, 80, 69, 82, 95>> >>,          \* '/'  : '_PER_'
     << <<37>>,     <<80, 69, 82, 67, 69, 78, 84>> >>,  \* '%'  : 'PERCENT'
     << <<91>>,     <<>> >>,                            \* '['  : ''
     << <<93>>,     <<>> >>,                            \* ']'  : ''
     << <<40>>,     <<>> >>,                            \* '('  : ''
     << <<41>>,     <<>> >>,                            \* ')'  : ''
     << <<39>>,     <<>> >>,                            \* "'"  : ''
     << <<56>>,     <<69, 73, 71, 72, 84>> >>,          \* '8'  : 'EIGHT'
     << <<49, 53>>, <<70, 73, 70, 84, 69, 69, 78>> >>,  \* '15' : 'FIFTEEN'
     << <<51, 48>>, <<84, 72, 73, 82, 84, 89>> >>,      \* '30' : 'THIRTY'
     << <<92>>,     <<95>> >>,                          \* '\\' : '_'
     << <<160>>,    <<95>> >>,                          \* unichr(160)  : '_'
     << <<176>>,    <<68, 69, 71, 95>> >>,              \* unichr(176)  : 'DEG_'
     << <<186>>,    <<68, 69, 71, 95>> >>,              \* unichr(186)  : 'DEG_'
     << <<8211>>,   <<95>> >> >>                        \* unichr(8211) : '_'

NEntries == Len(UNIT_KEY_REPLACEMENTS)

\* The order of the literal, moved round by k places.
Rotation(k) == [i \in 1..NEntries |-> ((i + k - 1) % NEntries) + 1]

\* UNIT_KEY_REPLACEMENTS.iteritems(): a dict iterates in an order that its
\* hash table decides, not the order of the literal.  The orders tried are
\* the literal's order (every deleting entry before '15' and '30'), the one
\* starting at '(' (the brackets after '15' and '30', the parentheses and
\* the apostrophe before) and the one starting at '15' (every deleting entry
\* after '15' and '30').
IterationOrders == {Rotation(0), Rotation(8), Rotation(12)}

RECURSIVE ApplyReplacements(_, _)
\* for old, new in <entries in order ord>: result = result.replace(old, new)
ApplyReplacements(result, ord) ==
  IF ord = <<>> THEN result
  ELSE LET e == UNIT_KEY_REPLACEMENTS[Head(ord)]
       IN  ApplyReplacements(Replace(result, e[1], e[2]), Tail(ord))

\* unit_key_from_name(name), the dict iterating in order ord
unit_key_from_name(name, ord) ==
  CollapseUnderscores(Upper(ApplyReplacements(name, ord)))

----------------------------------------------------------------------------
(* Direct calls of unit_key_from_name on bounded names.                    *)

\* The characters of the names tried: a, 1, 5, 8, space, '/', '[', "'",
\* '\', '_' and the degree sign.
NameAlphabet == {97, 49, 53, 56, 32, 47, 91, 39, 92, 95, 176}

RECURSIVE SeqsUpTo(_, _)
\* every sequence over S of length at most n
SeqsUpTo(S, n) ==
  IF n = 0 THEN {<<>>}
  ELSE LET shorter == SeqsUpTo(S, n - 1)
       IN  shorter \cup {Append(s, c) : s \in shorter, c \in S}

\* A unit has a name: the empty name is left out.
Names == SeqsUpTo(NameAlphabet, MaxNameLen) \ {<<>>}

InitKey ==
  /\ order \in IterationOrders
  /\ kname \in Names
  /\ kresult = <<>>
  /\ kpc = "call"
  /\ pc = "idle"
  /\ dest = [exists |-> FALSE, data |-> <<>>]
  /\ dest0 = dest
  /\ tmp = [exists |-> FALSE, data |-> <<>>]
  /\ sheet = <<>>
  /\ col_indices = <<>>
  /\ ri = 0
  /\ seen = {}
  /\ lines = <<>>
  /\ stdout = <<>>
  /\ unhandled = "none"
  /\ exit_code = -1

CallUnitKey ==
  /\ kpc = "call"
  /\ kresult' = unit_key_from_name(kname, order)
  /\ kpc' = "return"
  /\ UNCHANGED <<kname, order>>
  /\ UNCHANGED mainvars

NextKey == CallUnitKey

SpecKey == InitKey /\ [][NextKey]_vars

----------------------------------------------------------------------------
(* Module-level constants of units_from_xls.py.                            *)

\* COLUMN_NAMES = ['Name', 'Common\nCode', 'Symbol']
COLUMN_NAMES ==
  << <<78, 97, 109, 101>>,
     <<67, 111, 109, 109, 111, 110, 10, 67, 111, 100, 101>>,
     <<83, 121, 109, 98, 111, 108>> >>

\* The statements of PRE (its comments and its docstring are left out).
PRE_STATEMENTS ==
  <<
     \* line 99: import collections
     <<105, 109, 112, 111, 114, 116, 32, 99, 111, 108, 108, 101, 99,
       116, 105, 111, 110, 115, 10>>,
     \* line 102: UnitDescriptor = collections.namedtuple('UnitDescriptor', 'name code suffix')
     <<85, 110, 105, 116, 68, 101, 115, 99, 114, 105, 112, 116, 111,
       114, 32, 61, 32, 99, 111, 108, 108, 101, 99, 116, 105, 111,
       110, 115, 46, 110, 97, 109, 101, 100, 116, 117, 112, 108, 101,
       40, 39, 85, 110, 105, 116, 68, 101, 115, 99, 114, 105, 112,
       116, 111, 114, 39, 44, 32, 39, 110, 97, 109, 101, 32, 99, 111,
       100, 101, 32, 115, 117, 102, 102, 105, 120, 39, 41, 10>>,
     \* line 104: ALL_UNITS = []
     <<65, 76, 76, 95, 85, 78, 73, 84, 83, 32, 61, 32, 91, 93, 10>>,
     \* line 109: NO_DIMENSION = UnitDescriptor('No dimension', 'NDL', None)
     <<78, 79, 95, 68, 73, 77, 69, 78, 83, 73, 79, 78, 32, 61, 32, 85,
       110, 105, 116, 68, 101, 115, 99, 114, 105, 112, 116, 111, 114,
       40, 39, 78, 111, 32, 100, 105, 109, 101, 110, 115, 105, 111,
       110, 39, 44, 32, 39, 78, 68, 76, 39, 44, 32, 78, 111, 110, 101,
       41, 10>>,
     \* line 110: ALL_UNITS.append(NO_DIMENSION)
     <<65, 76, 76, 95, 85, 78, 73, 84, 83, 46, 97, 112, 112, 101, 110,
       100, 40, 78, 79, 95, 68, 73, 77, 69, 78, 83, 73, 79, 78, 41,
       10>>,
     \* line 111: NONE = UnitDescriptor('None', None, None)
     <<78, 79, 78, 69, 32, 61, 32, 85, 110, 105, 116, 68, 101, 115,
       99, 114, 105, 112, 116, 111, 114, 40, 39, 78, 111, 110, 101,
       39, 44, 32, 78, 111, 110, 101, 44, 32, 78, 111, 110, 101, 41,
       10>>,
     \* line 112: ALL_UNITS.append(NONE)
     <<65, 76, 76, 95, 85, 78, 73, 84, 83, 46, 97, 112, 112, 101, 110,
       100, 40, 78, 79, 78, 69, 41, 10>>
  >>

\* PRE, as main writes it
PRE == Concat(PRE_STATEMENTS)

\* The statements of POST outside class UnitLookup.
POST_STATEMENTS ==
  <<
     \* line 117: MINUTE = MINUTE_UNIT_OF_TIME
     <<77, 73, 78, 85, 84, 69, 32, 61, 32, 77, 73, 78, 85, 84, 69, 95,
       85, 78, 73, 84, 95, 79, 70, 95, 84, 73, 77, 69, 10>>,
     \* line 118: SECOND = SECOND_UNIT_OF_TIME
     <<83, 69, 67, 79, 78, 68, 32, 61, 32, 83, 69, 67, 79, 78, 68, 95,
       85, 78, 73, 84, 95, 79, 70, 95, 84, 73, 77, 69, 10>>,
     \* line 131: UNITS_BY_NAME = {u.name: u for u in ALL_UNITS}
     <<85, 78, 73, 84, 83, 95, 66, 89, 95, 78, 65, 77, 69, 32, 61, 32,
       123, 117, 46, 110, 97, 109, 101, 58, 32, 117, 32, 102, 111,
       114, 32, 117, 32, 105, 110, 32, 65, 76, 76, 95, 85, 78, 73, 84,
       83, 125, 10>>,
     \* line 132: UNITS_BY_SUFFIX = {u.suffix: u for u in ALL_UNITS}
     <<85, 78, 73, 84, 83, 95, 66, 89, 95, 83, 85, 70, 70, 73, 88, 32,
       61, 32, 123, 117, 46, 115, 117, 102, 102, 105, 120, 58, 32,
       117, 32, 102, 111, 114, 32, 117, 32, 105, 110, 32, 65, 76, 76,
       95, 85, 78, 73, 84, 83, 125, 10>>,
     \* line 134: del ALL_UNITS
     <<100, 101, 108, 32, 65, 76, 76, 95, 85, 78, 73, 84, 83, 10>>,
     \* line 136: UNITS_BY_ALL = {}
     <<85, 78, 73, 84, 83, 95, 66, 89, 95, 65, 76, 76, 32, 61, 32,
       123, 125, 10>>,
     \* line 137: UNITS_BY_ALL.update(UNITS_BY_NAME)
     <<85, 78, 73, 84, 83, 95, 66, 89, 95, 65, 76, 76, 46, 117, 112,
       100, 97, 116, 101, 40, 85, 78, 73, 84, 83, 95, 66, 89, 95, 78,
       65, 77, 69, 41, 10>>,
     \* line 138: UNITS_BY_ALL.update(UNITS_BY_SUFFIX)
     <<85, 78, 73, 84, 83, 95, 66, 89, 95, 65, 76, 76, 46, 117, 112,
       100, 97, 116, 101, 40, 85, 78, 73, 84, 83, 95, 66, 89, 95, 83,
       85, 70, 70, 73, 88, 41, 10>>,
     \* line 140: Unit = UnitLookup(UNITS_BY_ALL)
     <<85, 110, 105, 116, 32, 61, 32, 85, 110, 105, 116, 76, 111, 111,
       107, 117, 112, 40, 85, 78, 73, 84, 83, 95, 66, 89, 95, 65, 76,
       76, 41, 10>>
  >>

\* POST, as main writes it
POST == Concat(POST_STATEMENTS)

----------------------------------------------------------------------------
(* Files.                                                                  *)

NoFile == [exists |-> FALSE, data |-> <<>>]

\* "old\n": what a previous run left at args.outfile
OldFile == [exists |-> TRUE, data |-> << <<111, 108, 100, 10>> >>]

----------------------------------------------------------------------------
(* Worksheets: a sequence of rows, the first one the header row; a row is  *)
(* a sequence of cell values.                                              *)

\* Header rows: the three labels; the three labels in another column order;
\* and, each lacking one label, 'Level' for 'Name', 'Code' for
\* 'Common\nCode', 'Description' for 'Symbol'.
HeaderPool ==
  { COLUMN_NAMES,
    << COLUMN_NAMES[3], COLUMN_NAMES[1], COLUMN_NAMES[2] >>,
    << <<76, 101, 118, 101, 108>>, COLUMN_NAMES[2], COLUMN_NAMES[3] >>,
    << COLUMN_NAMES[1], <<67, 111, 100, 101>>, COLUMN_NAMES[3] >>,
    << COLUMN_NAMES[1], COLUMN_NAMES[2],
       <<68, 101, 115, 99, 114, 105, 112, 116, 105, 111, 110>> >> }

\* Data rows.
RowPool ==
  { << <<109, 101, 116, 114, 101>>, <<77, 84, 82>>, <<109>> >>,  \* metre, MTR, m
    << <<77, 101, 116, 114, 101>>, <<88, 77, 84>>, <<77>> >>,    \* Metre, XMT, M
    << <<110, 111, 110, 101>>, <<78, 79, 78>>, <<>> >>,          \* none, NON, (empty)
    << <<97, 39, 98>>, <<65, 66>>, <<39>> >>,                    \* a'b, AB, '
    << <<97, 92>>, <<66, 83>>, <<98>> >> }                       \* a\, BS, b

\* The worksheets tried: the sheet without any row, and a header row
\* followed by at most MaxRows data rows.
Sheets ==
  {<<>>} \cup
  {<<h>> \o d : h \in HeaderPool, d \in SeqsUpTo(RowPool, MaxRows)}

----------------------------------------------------------------------------
(* unit_defs_from_sheet.                                                   *)

\* The header scan: for idx, cell in enumerate(header): if cell.value in
\* column_names: col_indices[cell.value] = idx.  (Indices count from 1.)
HeaderIndices(header, column_names) ==
  LET labels == {header[i] : i \in 1..Len(header)} \cap
                {column_names[i] : i \in 1..Len(column_names)}
      Last(l) == CHOOSE i \in 1..Len(header) :
                   /\ header[i] = l
                   /\ \A j \in 1..Len(header) : header[j] = l => j <= i
  IN  [l \in labels |-> Last(l)]

\* col_indices[label]: a dict lookup, which raises KeyError for a key the
\* dict does not hold.
LookupDefaultsToFirstColumn(ci, label) ==
  [ok |-> TRUE, idx |-> IF label \in DOMAIN ci THEN ci[label] ELSE 1]

Lookup(ci, label) ==
  IF label \in DOMAIN ci THEN [ok |-> TRUE, idx |-> ci[label]]
  ELSE [ok |-> FALSE, idx |-> 0]

\* value.replace("'", r'\'')
EscapeQuotes(value) == Replace(value, <<APOSTROPHE>>, <<BACKSLASH, APOSTROPHE>>)

\* "%s = UnitDescriptor('%s', '%s', '''%s''')\n" % (key, name, code, suffix)
DeclarationLine(key, name, code, suffix) ==
  key
  \o <<32, 61, 32, 85, 110, 105, 116, 68, 101, 115, 99, 114, 105, 112,
       116, 111, 114, 40, 39>>                    \* " = UnitDescriptor('"
  \o name
  \o <<39, 44, 32, 39>>                           \* "', '"
  \o code
  \o <<39, 44, 32, 39, 39, 39>>                   \* "', '''"
  \o suffix
  \o <<39, 39, 39, 41, 10>>                       \* "''')\n"

\* "ALL_UNITS.append(%s)\n" % key
RegistrationLine(key) ==
  <<65, 76, 76, 95, 85, 78, 73, 84, 83, 46, 97, 112, 112, 101, 110, 100, 40>>
  \o key \o <<41, 10>>

\* seen after "if key in seen: continue / seen.add(key)" let the row through
SeenAddForgets(s, key) == s

SeenAdd(s, key) == s \cup {key}

\* The generator's except clause: the message, and the generator returns.
XLRDErrorCaught ==
  /\ stdout' = Append(stdout, "Unable to process the .xls file.")
  /\ pc' = "writelines"

\* An exception leaves main(): the interpreter prints the traceback and
\* exits with status 1.
Crash(exception) ==
  /\ unhandled' = exception
  /\ exit_code' = 1
  /\ pc' = "crashed"

\* Lines 212-220: the generator starts; the header row is fetched and scanned.
unit_defs_header ==
  /\ pc = "gen_header"
  /\ \E xlrd_error \in BOOLEAN :
       IF xlrd_error
       THEN /\ XLRDErrorCaught
            /\ UNCHANGED <<col_indices, seen>>
       ELSE IF sheet = <<>>
       THEN \* rows.next() raises StopIteration, which ends the generator
            /\ pc' = "writelines"
            /\ UNCHANGED <<col_indices, seen, stdout>>
       ELSE /\ col_indices' = HeaderIndices(sheet[1], COLUMN_NAMES)
            /\ seen' = {}
            /\ pc' = "gen_rows"
            /\ UNCHANGED stdout
  /\ UNCHANGED <<order, dest, dest0, tmp, sheet, ri, lines, unhandled, exit_code>>
  /\ UNCHANGED keyvars

\* Lines 223-234: one turn of the loop over the data rows.
unit_defs_row ==
  /\ pc = "gen_rows"
  /\ ri < Len(sheet) - 1
  /\ \E xlrd_error \in BOOLEAN :
       IF xlrd_error
       THEN /\ XLRDErrorCaught
            /\ UNCHANGED <<ri, seen, lines, unhandled, exit_code>>
       ELSE
         LET row == sheet[ri + 2]
             n == Lookup(col_indices, COLUMN_NAMES[1])
             c == Lookup(col_indices, COLUMN_NAMES[2])
             s == Lookup(col_indices, COLUMN_NAMES[3])
         IN
         /\ ri' = ri + 1
         /\ IF ~(n.ok /\ c.ok /\ s.ok)
            THEN \* KeyError: not an XLRDError, so it leaves the generator,
                 \* the list comprehension and main
                 /\ Crash("KeyError")
                 /\ UNCHANGED <<seen, lines, stdout>>
            ELSE LET name == EscapeQuotes(row[n.idx])
                     code == row[c.idx]
                     suffix == EscapeQuotes(row[s.idx])
                     key == unit_key_from_name(name, order)
                 IN  /\ IF key \in seen
                        THEN UNCHANGED <<seen, lines>>
                        ELSE /\ seen' = SeenAdd(seen, key)
                             /\ lines' = lines \o
                                  << DeclarationLine(key, name, code, suffix),
                                     RegistrationLine(key) >>
                     /\ UNCHANGED <<pc, stdout, unhandled, exit_code>>
  /\ UNCHANGED <<order, dest, dest0, tmp, sheet, col_indices>>
  /\ UNCHANGED keyvars

\* The loop of line 223 is exhausted: the generator returns.
unit_defs_end ==
  /\ pc = "gen_rows"
  /\ ri = Len(sheet) - 1
  /\ pc' = "writelines"
  /\ UNCHANGED <<order, dest, dest0, tmp, sheet, col_indices, ri, seen, lines,
                 stdout, unhandled, exit_code>>
  /\ UNCHANGED keyvars

----------------------------------------------------------------------------
(* main.                                                                   *)

\* sys.exit(): SystemExit without an argument, exit status 0
ExitStatusOfSysExit == 0

\* Lines 182-185: the input path is checked.
main_check_xlsfile ==
  /\ pc = "check"
  /\ \E exists \in BOOLEAN :
       IF exists
       THEN /\ pc' = "open"
            /\ UNCHANGED <<stdout, exit_code>>
       ELSE /\ stdout' = stdout \o <<"Unable to locate the file", "usage">>
            /\ exit_code' = ExitStatusOfSysExit
            /\ pc' = "exited"
  /\ UNCHANGED <<order, dest, dest0, tmp, sheet, col_indices, ri, seen, lines,
                 unhandled>>
  /\ UNCHANGED keyvars

\* Lines 187-189: xlrd.open_workbook(...).sheet_by_name(SHEET_NAME) is
\* evaluated in main, then the generator object is made (its body does not
\* run yet).
main_open_workbook ==
  /\ pc = "open"
  /\ \/ \* open_workbook or sheet_by_name raises XLRDError
        /\ Crash("XLRDError")
        /\ UNCHANGED sheet
     \/ \E s \in Sheets :
          /\ sheet' = s
          /\ pc' = "mkstemp"
          /\ UNCHANGED <<unhandled, exit_code>>
  /\ UNCHANGED <<order, dest, dest0, tmp, col_indices, ri, seen, lines, stdout>>
  /\ UNCHANGED keyvars

\* Lines 191-192: mkstemp() makes the temporary file, open(tmp_path, 'w').
main_mkstemp ==
  /\ pc = "mkstemp"
  /\ tmp' = [exists |-> TRUE, data |-> <<>>]
  /\ pc' = "write_pre"
  /\ UNCHANGED <<order, dest, dest0, sheet, col_indices, ri, seen, lines,
                 stdout, unhandled, exit_code>>
  /\ UNCHANGED keyvars

\* Line 193: new_file.write(PRE); then line 195 starts the generator.
main_write_pre ==
  /\ pc = "write_pre"
  /\ tmp' = [tmp EXCEPT !.data = Append(@, PRE)]
  /\ pc' = "gen_header"
  /\ UNCHANGED <<order, dest, dest0, sheet, col_indices, ri, seen, lines,
                 stdout, unhandled, exit_code>>
  /\ UNCHANGED keyvars

\* Lines 194-195: the list of encoded lines is complete and is written.
main_writelines ==
  /\ pc = "writelines"
  /\ tmp' = [tmp EXCEPT !.data = @ \o [i \in 1..Len(lines) |-> EncodeUtf8(lines[i])]]
  /\ pc' = "write_post"
  /\ UNCHANGED <<order, dest, dest0, sheet, col_indices, ri, seen, lines,
                 stdout, unhandled, exit_code>>
  /\ UNCHANGED keyvars

\* Lines 196-197 without the write of POST.
main_write_post_skipped ==
  /\ pc = "write_post"
  /\ pc' = "remove"
  /\ UNCHANGED <<order, dest, dest0, tmp, sheet, col_indices, ri, seen, lines,
                 stdout, unhandled, exit_code>>
  /\ UNCHANGED keyvars

\* Lines 196-197: new_file.write(POST), flush; the with block closes the file.
main_write_post ==
  /\ pc = "write_post"
  /\ tmp' = [tmp EXCEPT !.data = Append(@, POST)]
  /\ pc' = "remove"
  /\ UNCHANGED <<order, dest, dest0, sheet, col_indices, ri, seen, lines,
                 stdout, unhandled, exit_code>>
  /\ UNCHANGED keyvars

\* Line 199: os.remove(args.outfile), OSError when there is no such file.
main_remove ==
  /\ pc = "remove"
  /\ IF dest.exists
     THEN /\ dest' = NoFile
          /\ pc' = "move"
          /\ UNCHANGED <<unhandled, exit_code>>
     ELSE /\ Crash("OSError")
          /\ UNCHANGED dest
  /\ UNCHANGED <<order, dest0, tmp, sheet, col_indices, ri, seen, lines, stdout>>
  /\ UNCHANGED keyvars

\* Line 200: shutil.move(tmp_path, args.outfile); main returns.
main_move ==
  /\ pc = "move"
  /\ dest' = tmp
  /\ tmp' = NoFile
  /\ pc' = "done"
  /\ exit_code' = 0
  /\ UNCHANGED <<order, dest0, sheet, col_indices, ri, seen, lines, stdout,
                 unhandled>>
  /\ UNCHANGED keyvars

Init ==
  /\ pc = "check"
  /\ order \in IterationOrders
  /\ dest \in {NoFile, OldFile}
  /\ dest0 = dest
  /\ tmp = NoFile
  /\ sheet = <<>>
  /\ col_indices = <<>>
  /\ ri = 0
  /\ seen = {}
  /\ lines = <<>>
  /\ stdout = <<>>
  /\ unhandled = "none"
  /\ exit_code = -1
  /\ kname = <<>>
  /\ kresult = <<>>
  /\ kpc = "idle"

Next ==
  \/ main_check_xlsfile
  \/ main_open_workbook
  \/ main_mkstemp
  \/ main_write_pre
  \/ unit_defs_header
  \/ unit_defs_row
  \/ unit_defs_end
  \/ main_writelines
  \/ main_write_post
  \/ main_remove
  \/ main_move

Spec == Init /\ [][Next]_vars

----------------------------------------------------------------------------
(* Claims about main and unit_defs_from_sheet, checked under Spec.         *)

\* What a complete run writes: PRE, every yielded line encoded, POST.
FullOutput ==
  <<PRE>> \o [i \in 1..Len(lines) |-> EncodeUtf8(lines[i])] \o <<POST>>

\* C1: the destination file is neither removed nor modified before the
\* temporary file holds the complete output (PRE, every record line, POST),
\* and a run that fails while the records are generated leaves the
\* destination with its previous content.
C1_DestUntouchedUntilTmpComplete ==
  /\ dest # dest0 =>
       /\ pc \in {"move", "done"}
       /\ (IF tmp.exists THEN tmp.data ELSE dest.data) = FullOutput
  /\ unhandled = "KeyError" => dest = dest0

\* The destination has been removed, the complete temporary file (with
\* records in it) waits to be moved.
C1_Witness ==
  /\ pc = "move"
  /\ dest0.exists
  /\ ~dest.exists
  /\ Len(lines) >= 2
  /\ tmp.data = FullOutput

\* The set of cell values of a row.
Cells(row) == {row[i] : i \in 1..Len(row)}

HeaderComplete ==
  /\ sheet # <<>>
  /\ \A i \in 1..Len(COLUMN_NAMES) : COLUMN_NAMES[i] \in Cells(sheet[1])

HeaderLacksLabel ==
  /\ sheet # <<>>
  /\ \E i \in 1..Len(COLUMN_NAMES) : COLUMN_NAMES[i] \notin Cells(sheet[1])

\* The cell of data row j in the column headed by label.
Field(j, label) ==
  sheet[j + 1][CHOOSE i \in 1..Len(sheet[1]) : sheet[1][i] = label]

RowName(j) == EscapeQuotes(Field(j, COLUMN_NAMES[1]))

RowKey(j) == unit_key_from_name(RowName(j), order)

\* Data row j is the first one with its identifier.
FirstOfItsKey(j) == \A i \in 1..(j - 1) : RowKey(i) # RowKey(j)

RECURSIVE ExpectedLines(_)
\* The lines owed after n data rows: for each row that is the first of its
\* identifier, in row order, its declaration and its registration.
ExpectedLines(n) ==
  IF n = 0 THEN <<>>
  ELSE ExpectedLines(n - 1) \o
       (IF FirstOfItsKey(n)
        THEN << DeclarationLine(RowKey(n), RowName(n), Field(n, COLUMN_NAMES[2]),
                                EscapeQuotes(Field(n, COLUMN_NAMES[3]))),
                RegistrationLine(RowKey(n)) >>
        ELSE <<>>)

GeneratedStatements == PRE_STATEMENTS \o lines

RegistrationPrefix == RegistrationLine(<<>>)

\* line is ALL_UNITS.append(<id>)
IsRegistration(line) ==
  /\ Len(line) >= Len(RegistrationPrefix)
  /\ StartsWith(line, SubSeq(RegistrationPrefix, 1, Len(RegistrationPrefix) - 2))
  /\ OccursAt(line, Len(line) - 1, <<41, 10>>)

RegisteredId(line) ==
  SubSeq(line, Len(RegistrationPrefix) - 1, Len(line) - 2)

\* line is <id> = UnitDescriptor(...
Declares(line, id) ==
  StartsWith(line, id \o <<32, 61, 32, 85, 110, 105, 116, 68, 101, 115, 99,
                           114, 105, 112, 116, 111, 114, 40>>)

\* C3: in the generated text (PRE followed by the emitted lines), every
\* identifier of a registration statement has exactly one declaration
\* statement, and it comes before the registration.
C3_OneDeclarationPerRegistration ==
  \A k \in 1..Len(GeneratedStatements) :
    IsRegistration(GeneratedStatements[k]) =>
      LET id == RegisteredId(GeneratedStatements[k])
          decls == {j \in 1..Len(GeneratedStatements) :
                      Declares(GeneratedStatements[j], id)}
      IN  /\ Cardinality(decls) = 1
          /\ \E j \in decls : j < k

\* The generator has returned or raised.
GeneratorOver ==
  pc \in {"writelines", "write_post", "remove", "move", "done", "crashed"}

XLRDErrorReported ==
  \E i \in 1..Len(stdout) : stdout[i] = "Unable to process the .xls file."

\* C4 as claimed: for a header row that lacks one of the three labels,
\* unit_defs_from_sheet raises a fatal error and yields no line, whatever
\* the number of data rows, zero included.
C4_MissingLabelAlwaysFatal ==
  (HeaderLacksLabel /\ GeneratorOver /\ ~XLRDErrorReported) =>
    /\ unhandled = "KeyError"
    /\ lines = <<>>

\* C4 as amended: for a header row that lacks one of the three labels no
\* line is ever yielded, and KeyError is raised exactly when a first data
\* row has been fetched; no further row is fetched.
C4_MissingLabelFatalOnFirstRow ==
  HeaderLacksLabel =>
    /\ lines = <<>>
    /\ ri <= 1
    /\ (ri = 1 <=> unhandled = "KeyError")
    /\ (unhandled = "KeyError" => pc = "crashed" /\ dest = dest0)

\* A header row lacking a label, two data rows: KeyError on the first.
C4_Witness ==
  /\ HeaderLacksLabel
  /\ Len(sheet) = 3
  /\ ri = 1
  /\ unhandled = "KeyError"

\* C5: when the xlsfile path does not exist, main prints the usage and
\* exits with a non-zero status, without creating a temporary file and
\* without touching the destination.
C5_MissingInputExitsNonZero ==
  pc = "exited" =>
    /\ \E i \in 1..Len(stdout) : stdout[i] = "usage"
    /\ exit_code # 0
    /\ ~tmp.exists
    /\ dest = dest0

\* C6: with an existing, parsable spreadsheet, whether or not a previous
\* destination file is present, the run ends with the destination holding
\* the complete generated text and no temporary file left.
C6_RunEndsWithDestRegenerated ==
  (pc \in {"done", "crashed"} /\ HeaderComplete /\ ~XLRDErrorReported) =>
    /\ pc = "done"
    /\ dest.exists
    /\ dest.data = FullOutput
    /\ ~tmp.exists

\* C7: an XLRDError from opening the workbook, selecting the sheet or
\* reading its rows is reported on the console and never leaves main as an
\* unhandled exception.
C7_XLRDErrorNeverEscapes ==
  /\ unhandled # "XLRDError"
  /\ pc = "crashed" => unhandled \in {"KeyError", "OSError"}

\* Python's scan of a string literal that opens at position p of line: the
\* position after its closing quotes, 0 when the literal is not closed.
RECURSIVE ScanLiteral(_, _, _)
ScanLiteral(line, j, triple) ==
  IF j > Len(line) THEN 0
  ELSE IF line[j] = BACKSLASH THEN ScanLiteral(line, j + 2, triple)
  ELSE IF triple
       THEN IF OccursAt(line, j, <<APOSTROPHE, APOSTROPHE, APOSTROPHE>>)
            THEN j + 3
            ELSE ScanLiteral(line, j + 1, triple)
       ELSE IF line[j] = APOSTROPHE THEN j + 1
            ELSE IF line[j] = 10 THEN 0
            ELSE ScanLiteral(line, j + 1, triple)

LiteralEnd(line, p) ==
  IF p = 0 \/ p > Len(line) \/ line[p] # APOSTROPHE THEN 0
  ELSE IF OccursAt(line, p, <<APOSTROPHE, APOSTROPHE, APOSTROPHE>>)
       THEN ScanLiteral(line, p + 3, TRUE)
       ELSE ScanLiteral(line, p + 1, FALSE)

\* position after ", " at position p, 0 when it is not there
AfterComma(line, p) ==
  IF OccursAt(line, p, <<44, 32>>) THEN p + 2 ELSE 0

\* line reads <key> = UnitDescriptor(<literal>, <literal>, <literal>)\n
WellFormedDeclaration(line, key) ==
  LET e1 == LiteralEnd(line, Len(key) + 19)
      e2 == LiteralEnd(line, AfterComma(line, e1))
      e3 == LiteralEnd(line, AfterComma(line, e2))
  IN  /\ Declares(line, key)
      /\ OccursAt(line, e3, <<41, 10>>)
      /\ e3 + 1 = Len(line)

\* C9: every declaration line emitted is syntactically valid: no content of
\* the name, code or suffix ends its string literal early or leaves it
\* unterminated.
C9_DeclarationsWellFormed ==
  \A k \in 1..Len(lines) :
    IsRegistration(lines[k]) /\ k >= 2 =>
      WellFormedDeclaration(lines[k - 1], RegisteredId(lines[k]))

----------------------------------------------------------------------------
(* Claims about unit_key_from_name, checked under SpecKey.                 *)

IsUpperLetter(c) == c >= 65 /\ c <= 90

IsDigit(c) == c >= 48 /\ c <= 57

\* A legal identifier of the generated Python 2 module.
IsLegalIdentifier(s) ==
  /\ s # <<>>
  /\ \A i \in 1..Len(s) : IsUpperLetter(s[i]) \/ IsDigit(s[i]) \/ s[i] = UNDERSCORE
  /\ ~IsDigit(s[1])

\* C8: for every unit name, unit_key_from_name returns a legal identifier of
\* the generated code: non-empty, made only of uppercase letters, digits and
\* underscores, and not starting with a digit.
C8_KeyIsLegalIdentifier ==
  kpc = "return" => IsLegalIdentifier(kresult)

\* C10: the identifier unit_key_from_name returns for a name does not depend
\* on the order in which the entries of UNIT_KEY_REPLACEMENTS are iterated.
C10_KeyIndependentOfOrder ==
  kpc = "return" =>
    \A o \in IterationOrders : unit_key_from_name(kname, o) = kresult

====
